---- MODULE Spec2Model ----
(***************************************************************************)
(* State machine of the ApiBuilder component (src/App.tsx): the eight     *)
(* useState cells, the wall clock read by Date.now(), and the             *)
(* handleTestApi invocations suspended at one of their two awaits.         *)
(*                                                                         *)
(* Granularity: JavaScript runs each event handler and each promise       *)
(* continuation to completion, so one action is one handler or one        *)
(* continuation; the setState calls made inside it are committed          *)
(* together and the states of the model are the states between them.      *)
(***************************************************************************)
EXTENDS Integers, Sequences, FiniteSets, TLC

VARIABLES apiUrl, apiMethod, queryParams, headers, requestBody,
          response, isLoading, error, now, inflight, events, download

vars == <<apiUrl, apiMethod, queryParams, headers, requestBody,
          response, isLoading, error, now, inflight, events, download>>

builder == <<apiUrl, apiMethod, queryParams, headers, requestBody>>

result == <<response, isLoading, error>>

----------------------------------------------------------------------------
(* Bounds of the model *)

\* last value the wall clock reaches
MaxClock == 2

\* longest queryParams list addQueryParam still extends
MaxParams == 2

\* longest headers list addHeader still extends
MaxHeaders == 3

\* handleTestApi invocations the model lets be suspended at once
MaxInflight == 2

\* user events (clicks, edits) of one session
MaxEvents == 4

\* entries of the two lists together, in the builder states the assembly
\* and the export are applied to
MaxEntries == 2

----------------------------------------------------------------------------
(* Values *)

\* string | null state cells: <<>> is null, <<x>> is the value x
Null == <<>>

Some(x) == <<x>>

DefaultUrl == "https://jsonplaceholder.typicode.com/posts/1"

ExampleUrl == "https://jsonplaceholder.typicode.com/posts"

ExampleBody == "{\n  \"title\": \"foo\",\n  \"body\": \"bar\",\n  \"userId\": 1\n}"

Methods == {"GET", "POST", "PUT", "PATCH", "DELETE", "OPTIONS", "HEAD"}

methodsWithBody == {"POST", "PUT", "PATCH"}

\* texts typed into the URL field, the key and value fields, the body area
Urls == {"https://api.example.com/items"}

Keys == {"", "a", "a b"}

Values == {"x"}

Fields == {"key", "value"}

BodyTexts == {"", "{\"a\":1}"}

\* methods chosen in the select
SelectMethods == {"GET", "POST", "DELETE"}

\* ids a handler can be called with: every id Date.now() and Date.now() + 1
\* can produce, so ids of rows that were removed are among them
IdDomain == 0 .. MaxClock + 1

\* what the transport delivers
Statuses == {200, 404, 500}

StatusText(s) == IF s = 200 THEN "OK"
                 ELSE IF s = 404 THEN "Not Found"
                 ELSE "Internal Server Error"

ResponseBodies == {"{\"ok\":true}", "<html>"}

\* res.json(): the bodies that parse, and what they parse to
JsonParses(body) == body = "{\"ok\":true}"

JsonData(body) == [ok |-> TRUE]

JsonErrorMessage == "Unexpected token < in JSON at position 0"

\* err.message of a rejected fetch
FetchErrorMessages == {"Failed to fetch", ""}

----------------------------------------------------------------------------
(* Entry lists *)

Entry(id, key, value) == [id |-> id, key |-> key, value |-> value]

IdsOf(list) == {list[i].id : i \in 1 .. Len(list)}

\* [...list, { id: Date.now(), key: '', value: '' }]
addEntry(list, t) == Append(list, Entry(t, "", ""))

\* list.map((e) => (e.id === id ? { ...e, [field]: value } : e))
updateEntry(list, id, field, value) ==
  [i \in 1 .. Len(list) |->
     IF list[i].id = id THEN [list[i] EXCEPT ![field] = value] ELSE list[i]]

\* a removal by position, where the code removes by id
removeEntry_ByIndex(list, id) ==
  [i \in 1 .. Len(list) - (IF id + 1 \in 1 .. Len(list) THEN 1 ELSE 0) |->
     IF i < id + 1 THEN list[i] ELSE list[i + 1]]

\* list.filter((e) => e.id !== id)
removeEntry(list, id) ==
  LET Keep(e) == e.id # id IN SelectSeq(list, Keep)

----------------------------------------------------------------------------
(* Strings *)

CharsOf(s) == {SubSeq(s, i, i) : i \in 1 .. Len(s)}

\* the white space String.prototype.trim removes, among the characters typed
IsSpace(c) == c \in {" ", "\t", "\n"}

RECURSIVE trimStart(_)
trimStart(s) == IF s # "" /\ IsSpace(Head(s)) THEN trimStart(Tail(s)) ELSE s

RECURSIVE trimEnd(_)
trimEnd(s) ==
  IF s # "" /\ IsSpace(SubSeq(s, Len(s), Len(s)))
  THEN trimEnd(SubSeq(s, 1, Len(s) - 1))
  ELSE s

\* String.prototype.trim
trim(s) == trimEnd(trimStart(s))

LowerCase == "abcdefghijklmnopqrstuvwxyz"

UpperCase == "ABCDEFGHIJKLMNOPQRSTUVWXYZ"

Digits == "0123456789"

\* byte-lowercase of one character
lowerChar(c) ==
  IF c \in CharsOf(UpperCase)
  THEN LET i == CHOOSE k \in 1 .. Len(UpperCase) : SubSeq(UpperCase, k, k) = c
       IN SubSeq(LowerCase, i, i)
  ELSE c

RECURSIVE lower(_)
lower(s) == IF s = "" THEN "" ELSE lowerChar(Head(s)) \o lower(Tail(s))

\* the characters the application/x-www-form-urlencoded serializer leaves alone
FormSafe == CharsOf(LowerCase) \cup CharsOf(UpperCase) \cup CharsOf(Digits)
              \cup {"*", "-", ".", "_"}

\* the percent-encoding of the other characters typed
percentEncoded(c) ==
  CASE c = "&" -> "%26"
    [] c = "=" -> "%3D"
    [] c = "?" -> "%3F"
    [] c = "/" -> "%2F"
    [] c = ":" -> "%3A"
    [] c = "%" -> "%25"
    [] c = "+" -> "%2B"

formEncodeChar(c) ==
  IF c \in FormSafe THEN c ELSE IF c = " " THEN "+" ELSE percentEncoded(c)

\* the urlencoded serializer applied to one name or value
RECURSIVE formEncode(_)
formEncode(s) == IF s = "" THEN "" ELSE formEncodeChar(Head(s)) \o formEncode(Tail(s))

----------------------------------------------------------------------------
(* Request assembly: handleTestApi up to the call of fetch *)

\* param.key.trim() !== ''
hasKey(e) == trim(e.key) # ""

\* an integer-like property name of a JavaScript object ("0", "7", "12")
IsArrayIndex(k) ==
  /\ k # ""
  /\ CharsOf(k) \subseteq CharsOf(Digits)
  /\ Len(k) > 1 => Head(k) # "0"

DigitValue(c) == (CHOOSE k \in 1 .. Len(Digits) : SubSeq(Digits, k, k) = c) - 1

RECURSIVE IndexValue(_)
IndexValue(k) ==
  IF k = "" THEN 0
  ELSE 10 * IndexValue(SubSeq(k, 1, Len(k) - 1)) + DigitValue(SubSeq(k, Len(k), Len(k)))

\* acc[key] = value on an object kept as its properties in creation order:
\* an existing property keeps its place and takes the new value
objectSet(acc, key, value) ==
  IF \E i \in 1 .. Len(acc) : acc[i].key = key
  THEN [i \in 1 .. Len(acc) |->
          IF acc[i].key = key THEN [acc[i] EXCEPT !.value = value] ELSE acc[i]]
  ELSE Append(acc, [key |-> key, value |-> value])

\* filteredParams.reduce((acc, param) => { acc[param.key] = param.value; ... }, {})
RECURSIVE reduceParams(_, _)
reduceParams(acc, list) ==
  IF list = <<>> THEN acc
  ELSE reduceParams(objectSet(acc, Head(list).key, Head(list).value), Tail(list))

\* the order in which an object's own properties are enumerated: integer-like
\* names ascending, then the other names in creation order
ownProperties(obj) ==
  LET isIndex(p) == IsArrayIndex(p.key)
      isName(p) == ~IsArrayIndex(p.key)
  IN SortSeq(SelectSeq(obj, isIndex),
             LAMBDA p, q : IndexValue(p.key) < IndexValue(q.key))
       \o SelectSeq(obj, isName)

\* URLSearchParams.prototype.toString of a list of pairs
RECURSIVE queryString(_)
queryString(pairs) ==
  IF pairs = <<>> THEN ""
  ELSE formEncode(Head(pairs).key) \o "=" \o formEncode(Head(pairs).value)
         \o (IF Len(pairs) > 1 THEN "&" ELSE "") \o queryString(Tail(pairs))

\* lines 57-69: finalUrl
finalUrl(url, params) ==
  LET filteredParams == SelectSeq(params, hasKey)
  IN IF Len(params) > 0 /\ Len(filteredParams) > 0
     THEN url \o "?" \o queryString(ownProperties(reduceParams(<<>>, filteredParams)))
     ELSE url

\* the characters of an HTTP token (the apostrophe and the backquote, which
\* no text of the model holds, are left out)
TokenChars == CharsOf(LowerCase) \cup CharsOf(UpperCase) \cup CharsOf(Digits)
                \cup {"!", "#", "$", "%", "&", "*", "+", "-", ".", "^", "_", "|", "~"}

\* a header name Headers.prototype.append accepts; it throws a TypeError on any other
IsHeaderName(name) == name # "" /\ CharsOf(name) \subseteq TokenChars

\* lines 72-77: the header list built by the append calls, in call order;
\* append strips the white space around the value
requestHeaders(hdrs) ==
  LET kept == SelectSeq(hdrs, hasKey)
  IN [i \in 1 .. Len(kept) |-> [name |-> kept[i].key, value |-> trim(kept[i].value)]]

\* one of the append calls of lines 73-77 throws
headersThrow(hdrs) ==
  \E i \in 1 .. Len(hdrs) : hasKey(hdrs[i]) /\ ~IsHeaderName(hdrs[i].key)

RECURSIVE joinValues(_)
joinValues(values) ==
  IF values = <<>> THEN ""
  ELSE Head(values) \o (IF Len(values) > 1 THEN ", " ELSE "") \o joinValues(Tail(values))

\* the value a header list holds for a name: the values appended under that
\* name, whatever its case, joined by ", "; Null when there is none
headerValue(list, name) ==
  LET same(h) == lower(h.name) = lower(name)
      hits == SelectSeq(list, same)
  IN IF hits = <<>> THEN Null
     ELSE Some(joinValues([i \in 1 .. Len(hits) |-> hits[i].value]))

\* a body handed to fetch whenever bodyText is not blank, whatever the method
hasBody_AnyMethod(method, body) == trim(body) # ""

\* methodsWithBody.includes(apiMethod) && requestBody.trim() !== ''
hasBody(method, body) == method \in methodsWithBody /\ trim(body) # ""

\* lines 79-86: requestOptions, with the URL fetch is called with
outboundRequest(url, method, params, hdrs, body) ==
  [url |-> finalUrl(url, params),
   method |-> method,
   headers |-> requestHeaders(hdrs),
   body |-> IF hasBody(method, body) THEN Some(body) ELSE Null]

----------------------------------------------------------------------------
(* Export *)

\* list.filter(p => p.key.trim()): the entries are exported as they are
exportEntries(list) == SelectSeq(list, hasKey)

\* a requestBody exported only when it is not blank
exportsBody_NonBlank(method, body) == method \in methodsWithBody /\ trim(body) # ""

\* methodsWithBody.includes(apiMethod) ? requestBody : undefined
exportsBody(method, body) == method \in methodsWithBody

\* JSON.stringify(apiConfig, null, 2) as the fields of the document, in
\* order; a field whose value is undefined is left out
apiConfig(url, method, params, hdrs, body) ==
  << <<"apiUrl", url>>,
     <<"apiMethod", method>>,
     <<"queryParams", exportEntries(params)>>,
     <<"headers", exportEntries(hdrs)>> >>
    \o (IF exportsBody(method, body) THEN << <<"requestBody", body>> >> ELSE <<>>)

----------------------------------------------------------------------------
Init ==
  /\ now = 0
  /\ apiUrl = DefaultUrl
  /\ apiMethod = "GET"
  /\ queryParams = <<>>
  /\ headers = <<Entry(now, "Content-Type", "application/json")>>
  /\ requestBody = ""
  /\ response = Null
  /\ isLoading = FALSE
  /\ error = Null
  /\ inflight = <<>>
  /\ events = 0
  /\ download = Null

\* the wall clock advances
Tick ==
  /\ now < MaxClock
  /\ now' = now + 1
  /\ UNCHANGED <<builder, result, inflight, events>>
  /\ download' = Null

addQueryParam ==
  /\ Len(queryParams) < MaxParams
  /\ queryParams' = addEntry(queryParams, now)
  /\ UNCHANGED <<apiUrl, apiMethod, headers, requestBody, result, now, inflight>>
  /\ download' = Null

updateQueryParam(id, field, value) ==
  /\ queryParams' = updateEntry(queryParams, id, field, value)
  /\ UNCHANGED <<apiUrl, apiMethod, headers, requestBody, result, now, inflight>>
  /\ download' = Null

removeQueryParam(id) ==
  /\ queryParams' = removeEntry(queryParams, id)
  /\ UNCHANGED <<apiUrl, apiMethod, headers, requestBody, result, now, inflight>>
  /\ download' = Null

addHeader ==
  /\ Len(headers) < MaxHeaders
  /\ headers' = addEntry(headers, now)
  /\ UNCHANGED <<apiUrl, apiMethod, queryParams, requestBody, result, now, inflight>>
  /\ download' = Null

updateHeader(id, field, value) ==
  /\ headers' = updateEntry(headers, id, field, value)
  /\ UNCHANGED <<apiUrl, apiMethod, queryParams, requestBody, result, now, inflight>>
  /\ download' = Null

removeHeader(id) ==
  /\ headers' = removeEntry(headers, id)
  /\ UNCHANGED <<apiUrl, apiMethod, queryParams, requestBody, result, now, inflight>>
  /\ download' = Null

setApiUrl(u) ==
  /\ apiUrl' = u
  /\ UNCHANGED <<apiMethod, queryParams, headers, requestBody, result, now, inflight>>
  /\ download' = Null

setApiMethod(m) ==
  /\ apiMethod' = m
  /\ UNCHANGED <<apiUrl, queryParams, headers, requestBody, result, now, inflight>>
  /\ download' = Null

\* the body textarea is rendered only for a method with a body
setRequestBody(b) ==
  /\ apiMethod \in methodsWithBody
  /\ requestBody' = b
  /\ UNCHANGED <<apiUrl, apiMethod, queryParams, headers, result, now, inflight>>
  /\ download' = Null

\* the two headers of the example: Date.now() is read twice, at t1 and at t2
exampleHeaders(t1, t2) ==
  << Entry(t1, "Content-Type", "application/json"),
     Entry(t2 + 1, "Authorization", "Bearer YOUR_TOKEN_HERE") >>

loadExample ==
  \E t2 \in {now, IF now < MaxClock THEN now + 1 ELSE now} :
    /\ apiUrl' = ExampleUrl
    /\ apiMethod' = "POST"
    /\ queryParams' = <<>>
    /\ headers' = exampleHeaders(now, t2)
    /\ requestBody' = ExampleBody
    /\ response' = Null
    /\ error' = Null
    /\ now' = t2
    /\ UNCHANGED <<isLoading, inflight>>
    /\ download' = Null

----------------------------------------------------------------------------
(* handleTestApi: the part up to fetch(), then one continuation per await *)

\* the variant of ResultState the three display cells show
resultKind ==
  IF isLoading THEN "Pending"
  ELSE IF response # Null THEN "Success"
  ELSE IF error # Null THEN "Failure"
  ELSE "Idle"

\* a Test API button that is never disabled
testApiDisabled_Never == FALSE

\* disabled={isLoading} on the Test API button
testApiDisabled == isLoading

\* a dispatch start that leaves the previous response in place
startResult_KeepResponse == [isLoading |-> TRUE, error |-> Null, response |-> response]

\* a dispatch start that leaves the previous error in place
startResult_KeepError == [isLoading |-> TRUE, error |-> error, response |-> Null]

\* setIsLoading(true); setError(null); setResponse(null)
startResult == [isLoading |-> TRUE, error |-> Null, response |-> Null]

\* a handleTestApi invocation suspended at `await fetch(...)`:
\* calls counts the calls of the transport it has made, from is the variant
\* of ResultState it was started in, req is what fetch was called with
newDispatch ==
  [phase |-> "fetch", calls |-> 1, res |-> Null, from |-> resultKind,
   req |-> outboundRequest(apiUrl, apiMethod, queryParams, headers, requestBody)]

\* the bare err.message, without the prefix
errorText_Bare(msg) == msg

\* `Error: ${err.message}`
errorText(msg) == "Error: " \o msg

\* a rejection of every response that is not ok, as `if (!res.ok) throw` makes it
jsonRejects_NotOk(res) == ~JsonParses(res.body) \/ res.status >= 400

\* `await res.json()` throws: the body is not JSON, whatever the status
jsonRejects(res) == ~JsonParses(res.body)

\* JSON.stringify({ status, statusText, data }, null, 2) of a response res
responseDocument(res) ==
  [status |-> res.status, statusText |-> res.statusText, data |-> JsonData(res.body)]

Range(seq) == {seq[i] : i \in 1 .. Len(seq)}

RemoveAt(seq, i) == SubSeq(seq, 1, i - 1) \o SubSeq(seq, i + 1, Len(seq))

\* a dispatch that empties the body area once the request is on its way
handleTestApi_ClearsBody ==
  /\ ~testApiDisabled
  /\ Len(inflight) < MaxInflight
  /\ isLoading' = startResult.isLoading
  /\ error' = startResult.error
  /\ response' = startResult.response
  /\ inflight' = IF headersThrow(headers) THEN inflight ELSE Append(inflight, newDispatch)
  /\ requestBody' = ""
  /\ UNCHANGED <<apiUrl, apiMethod, queryParams, headers, now>>
  /\ download' = Null

\* the three setState calls are made first; when an append call of the header
\* assembly throws, the handler ends there, before the try block: fetch is
\* not called and neither catch nor finally runs
handleTestApi ==
  /\ ~testApiDisabled
  /\ Len(inflight) < MaxInflight
  /\ isLoading' = startResult.isLoading
  /\ error' = startResult.error
  /\ response' = startResult.response
  /\ inflight' = IF headersThrow(headers) THEN inflight ELSE Append(inflight, newDispatch)
  /\ UNCHANGED <<builder, now>>
  /\ download' = Null

\* fetch() resolves with a response of any status; the handler goes on to
\* `await res.json()`
fetchResolve(i, status, body) ==
  /\ inflight[i].phase = "fetch"
  /\ inflight' = [inflight EXCEPT ![i] =
        [@ EXCEPT !.phase = "json",
                  !.res = Some([status |-> status, statusText |-> StatusText(status),
                                body |-> body])]]
  /\ UNCHANGED <<builder, result, now, events>>
  /\ download' = Null

\* catch (err) { setError(...); setResponse(null) } finally { setIsLoading(false) }
catchFinally(i, msg) ==
  /\ error' = Some(errorText(msg))
  /\ response' = Null
  /\ isLoading' = FALSE
  /\ inflight' = RemoveAt(inflight, i)
  /\ UNCHANGED <<builder, now, events>>
  /\ download' = Null

\* fetch() rejects
fetchReject(i, msg) ==
  /\ inflight[i].phase = "fetch"
  /\ catchFinally(i, msg)

\* res.json() resolves: setResponse(...), then finally { setIsLoading(false) }
jsonResolve(i) ==
  /\ inflight[i].phase = "json"
  /\ ~jsonRejects(inflight[i].res[1])
  /\ response' = Some(responseDocument(inflight[i].res[1]))
  /\ isLoading' = FALSE
  /\ inflight' = RemoveAt(inflight, i)
  /\ UNCHANGED <<builder, error, now, events>>
  /\ download' = Null

\* res.json() rejects
jsonReject(i) ==
  /\ inflight[i].phase = "json"
  /\ jsonRejects(inflight[i].res[1])
  /\ catchFinally(i, JsonErrorMessage)

\* lines 101-119: the document is handed to the download link, which is
\* clicked and removed; download is the document the step just taken handed over
handleExport ==
  /\ download' = Some(apiConfig(apiUrl, apiMethod, queryParams, headers, requestBody))
  /\ UNCHANGED <<builder, result, now, inflight>>

----------------------------------------------------------------------------
\* one event of the user interface, run by handler A
UserEvent(A) ==
  /\ events < MaxEvents
  /\ A
  /\ events' = events + 1

Next ==
  \/ Tick
  \/ UserEvent(addQueryParam)
  \/ \E id \in IdDomain : UserEvent(\E k \in Keys : updateQueryParam(id, "key", k))
  \/ \E id \in IdDomain : UserEvent(\E v \in Values : updateQueryParam(id, "value", v))
  \/ \E id \in IdDomain : UserEvent(removeQueryParam(id))
  \/ UserEvent(addHeader)
  \/ \E id \in IdDomain : UserEvent(\E k \in Keys : updateHeader(id, "key", k))
  \/ \E id \in IdDomain : UserEvent(\E v \in Values : updateHeader(id, "value", v))
  \/ \E id \in IdDomain : UserEvent(removeHeader(id))
  \/ \E u \in Urls : UserEvent(setApiUrl(u))
  \/ \E m \in SelectMethods : UserEvent(setApiMethod(m))
  \/ \E b \in BodyTexts : UserEvent(setRequestBody(b))
  \/ UserEvent(loadExample)
  \/ UserEvent(handleTestApi)
  \/ UserEvent(handleExport)
  \/ \E i \in 1 .. Len(inflight), s \in Statuses, b \in ResponseBodies : fetchResolve(i, s, b)
  \/ \E i \in 1 .. Len(inflight), msg \in FetchErrorMessages : fetchReject(i, msg)
  \/ \E i \in 1 .. Len(inflight) : jsonResolve(i)
  \/ \E i \in 1 .. Len(inflight) : jsonReject(i)

Spec == Init /\ [][Next]_vars

\* a handleTestApi invocation settles: one of its two awaits resolves or rejects
Settle ==
  \/ \E i \in 1 .. Len(inflight), s \in Statuses, b \in ResponseBodies : fetchResolve(i, s, b)
  \/ \E i \in 1 .. Len(inflight), msg \in FetchErrorMessages : fetchReject(i, msg)
  \/ \E i \in 1 .. Len(inflight) : jsonResolve(i)
  \/ \E i \in 1 .. Len(inflight) : jsonReject(i)

\* the transport eventually resolves or rejects, and the continuation then runs
FairSpec == Spec /\ WF_vars(Settle)

----------------------------------------------------------------------------
(* The assembly and the export applied to builder states drawn from the   *)
(* texts below: every one of them is reached by add and update events.    *)

ParamKeys == {"", " ", "a", "1"}

ParamValues == {"x", "y&z"}

HeaderNames == {" ", "X-A", "x-a", "a b"}

HeaderValues == {"1", "2"}

BodyDraws == {"", " ", " {\"a\":1} "}

\* the lists of at most n entries with keys in K and values in V, the id of
\* an entry being its position
EntryLists(n, K, V) ==
  UNION { { [i \in 1 .. m |-> Entry(i, kv[i][1], kv[i][2])] : kv \in [1 .. m -> K \X V] }
          : m \in 0 .. n }

InitAssemble ==
  /\ now = MaxClock
  /\ apiUrl \in Urls
  /\ apiMethod \in Methods
  /\ requestBody \in BodyDraws
  /\ \E n \in 0 .. MaxEntries :
       /\ queryParams \in EntryLists(n, ParamKeys, ParamValues)
       /\ headers \in EntryLists(MaxEntries - n, HeaderNames, HeaderValues)
  /\ response = Null
  /\ isLoading = FALSE
  /\ error = Null
  /\ inflight = <<>>
  /\ events = 0
  /\ download = Null

NextAssemble ==
  \/ UserEvent(handleTestApi)
  \/ UserEvent(handleExport)

SpecAssemble == InitAssemble /\ [][NextAssemble]_vars

----------------------------------------------------------------------------
(* Properties *)

Distinct(list) == \A i, j \in 1 .. Len(list) : i # j => list[i].id # list[j].id

\* C1: in every reachable state the ids within queryParams are pairwise
\* distinct and the ids within headers are pairwise distinct.
C1_IdsDistinct == Distinct(queryParams) /\ Distinct(headers)

\* C2: in every state between two handlers at most one of the three display
\* fields is active: isLoading, a non-null response, a non-null error.
C2_MutuallyExclusive ==
  Cardinality({f \in {"isLoading", "response", "error"} :
                 \/ f = "isLoading" /\ isLoading
                 \/ f = "response" /\ response # Null
                 \/ f = "error" /\ error # Null}) <= 1

\* a failure is displayed: a dispatch was started and its catch path ran
C2_Witness == error # Null /\ response = Null /\ ~isLoading

\* C3: at most one handleTestApi invocation awaits the transport, and while
\* isLoading holds the Test API event cannot start another one.
C3_SingleInflight ==
  /\ Len(inflight) <= 1
  /\ isLoading => ~ENABLED handleTestApi

\* a dispatch is in flight, the user can still act and nothing but the
\* disabled button keeps a second dispatch from starting
C3_Witness ==
  /\ Len(inflight) = 1
  /\ events < MaxEvents
  /\ Len(inflight) < MaxInflight
  /\ apiUrl = ExampleUrl

Idle == ~isLoading /\ response = Null /\ error = Null

\* C4: right after loadExample, from any prior state, the ResultState is
\* Idle (isLoading false, response null, error null), and from Idle only the
\* start of a dispatch leaves Idle.
C4_LoadExampleIdle ==
  [][ /\ loadExample => Idle'
      /\ (Idle /\ ~handleTestApi) => Idle' ]_vars

\* dispatch i awaits res.json() and its body parses
ParsesAt(i) == inflight[i].phase = "json" /\ JsonParses(inflight[i].res[1].body)

\* the continuation of dispatch i runs in this step
Completes(i) == inflight' = RemoveAt(inflight, i)

\* C5: when the transport has returned a response whose body parses as JSON,
\* the dispatch ends in Success carrying that response's status, statusText
\* and data, whatever the status code; it never ends in Failure.
C5_SuccessAnyStatus ==
  [][ \A i \in 1 .. Len(inflight) :
        (ParsesAt(i) /\ Completes(i)) =>
          /\ ~isLoading'
          /\ error' = Null
          /\ response' # Null
          /\ response'[1].status = inflight[i].res[1].status
          /\ response'[1].statusText = inflight[i].res[1].statusText
          /\ response'[1].data = JsonData(inflight[i].res[1].body) ]_vars

\* a 404 and a 500 with a JSON body are displayed as Success
C5_Witness ==
  /\ ~isLoading
  /\ error = Null
  /\ response # Null
  /\ response[1].status \in {404, 500}

\* C6: when fetch rejects or the body fails to parse, the dispatch ends in
\* Failure with a non-empty message and a null response, and it is over: the
\* transport was called once for it and is not called again.
C6_FailureTerminal ==
  [][ \A i \in 1 .. Len(inflight) :
        ((\E msg \in FetchErrorMessages : fetchReject(i, msg)) \/ jsonReject(i)) =>
          /\ ~isLoading'
          /\ response' = Null
          /\ error' # Null
          /\ error'[1] # ""
          /\ inflight[i].calls = 1
          /\ Len(inflight') = Len(inflight) - 1
          /\ \A j \in 1 .. Len(inflight') : inflight'[j] \in Range(inflight) ]_vars

\* a failure whose err.message is empty is displayed
C6_Witness == ~isLoading /\ response = Null /\ error = Some("Error: ")

\* C7: a dispatch started from Success or Failure moves to Pending with both
\* the response and the error cleared, they stay cleared while it is in
\* flight, and its outcome holds its own result alone.
C7_PreviousCleared ==
  /\ [](inflight # <<>> => isLoading /\ response = Null /\ error = Null)
  /\ [][ /\ handleTestApi => (isLoading' /\ response' = Null /\ error' = Null)
          /\ \A i \in 1 .. Len(inflight) :
                Completes(i) => ~isLoading' /\ (response' = Null) # (error' = Null) ]_vars

\* a dispatch started from Success is in flight
C7_Witness ==
  \E i \in 1 .. Len(inflight) : inflight[i].from \in {"Success", "Failure"}

AbsentIds(list) == IdDomain \ IdsOf(list)

NoOpOnAbsent(list) ==
  \A id \in AbsentIds(list) :
    /\ removeEntry(list, id) = list
    /\ \A f \in Fields, v \in Keys \cup Values : updateEntry(list, id, f, v) = list

\* C8: for every reachable list and every id not present in it, update and
\* remove return the list unchanged.
C8_NoOpOnAbsent == NoOpOnAbsent(queryParams) /\ NoOpOnAbsent(headers)

\* the header created at mount is gone and its id is stale
C8_Witness ==
  /\ headers # <<>>
  /\ 0 \notin IdsOf(headers)
  /\ queryParams # <<>>
  /\ AbsentIds(queryParams) # {}

UpdatesOne(list) ==
  \A id \in IdsOf(list), f \in Fields, v \in Keys \cup Values :
    LET new == updateEntry(list, id, f, v)
        other == IF f = "key" THEN "value" ELSE "key"
    IN /\ Len(new) = Len(list)
       /\ \A i \in 1 .. Len(list) :
            /\ new[i].id = list[i].id
            /\ new[i][other] = list[i][other]
            /\ list[i].id = id => new[i][f] = v
       /\ Cardinality({i \in 1 .. Len(list) : new[i] # list[i]}) <= 1

\* C9: update(id, field, value) on a reachable list changes the named field
\* of the one entry with that id and nothing else.
C9_UpdateFrame == UpdatesOne(queryParams) /\ UpdatesOne(headers)

RemovesOne(list) ==
  \A id \in IdsOf(list) :
    LET new == removeEntry(list, id)
    IN /\ Len(new) = Len(list) - 1
       /\ \E k \in 1 .. Len(list) : list[k].id = id /\ new = RemoveAt(list, k)

\* C10: remove(id) on a reachable list deletes exactly the one entry with
\* that id; the others stay, in their order.
C10_RemoveFrame == RemovesOne(queryParams) /\ RemovesOne(headers)

\* C11: for every reachable list, add followed by remove of the id of the
\* entry just added gives the list back, entry for entry.
C11_AddRemoveInverse ==
  [][ /\ addQueryParam => removeEntry(queryParams', now) = queryParams
      /\ addHeader => removeEntry(headers', now) = headers ]_vars

\* the request the step just taken handed to fetch
Sent == inflight'[Len(inflight')].req

\* handleTestApi runs and calls fetch
Dispatches == handleTestApi /\ Len(inflight') = Len(inflight) + 1

KeyValuesOf(list) ==
  LET kept == SelectSeq(list, hasKey)
  IN [i \in 1 .. Len(kept) |-> [key |-> kept[i].key, value |-> kept[i].value]]

\* C12: the URL sent is baseUrl, '?' and one encoded key=value pair per query
\* entry whose trimmed key is non-empty, in list order, duplicates included;
\* with no such entry it is baseUrl alone.
C12_UrlEncodesEachEntry ==
  [][ Dispatches =>
        Sent.url = IF KeyValuesOf(queryParams) = <<>> THEN apiUrl
                   ELSE apiUrl \o "?" \o queryString(KeyValuesOf(queryParams)) ]_vars

\* the value of the last entry of the list whose key is key
LastValue(list, key) ==
  list[CHOOSE i \in 1 .. Len(list) :
         /\ list[i].key = key
         /\ \A j \in i + 1 .. Len(list) : list[j].key # key].value

\* C13: the header mapping sent holds exactly the keys of the header entries
\* whose trimmed key is non-empty, each with the value of the last entry of
\* that key, not a combination of the values.
C13_HeadersLastWins ==
  [][ Dispatches =>
        LET kept == KeyValuesOf(headers)
        IN /\ {Sent.headers[i].name : i \in 1 .. Len(Sent.headers)}
                = {kept[i].key : i \in 1 .. Len(kept)}
           /\ \A i \in 1 .. Len(kept) :
                headerValue(Sent.headers, kept[i].key) = Some(LastValue(kept, kept[i].key)) ]_vars

\* C14: the request sent carries a body exactly when the method is POST, PUT
\* or PATCH and bodyText trimmed is non-empty, and the body then is bodyText
\* as it stands.
C14_BodyIffBearingAndNonBlank ==
  [][ Dispatches =>
        /\ (Sent.body # Null) <=>
             (apiMethod \in {"POST", "PUT", "PATCH"} /\ CharsOf(requestBody) \ {" ", "\t", "\n"} # {})
        /\ Sent.body # Null => Sent.body = Some(requestBody)
        /\ Sent.method = apiMethod ]_vars

\* a body with white space around it was sent untrimmed
C14_Witness ==
  \E i \in 1 .. Len(inflight) :
    /\ inflight[i].req.body = Some(" {\"a\":1} ")
    /\ inflight[i].req.method \in {"PUT", "PATCH"}

HasField(doc, name) == \E i \in 1 .. Len(doc) : doc[i][1] = name

Field(doc, name) == doc[CHOOSE i \in 1 .. Len(doc) : doc[i][1] = name][2]

\* C15: in the exported document queryParams and headers list the entries
\* whose trimmed key is non-empty, in list order, each with the fields key
\* and value only.
C15_ExportStripsIds ==
  [][ handleExport =>
        /\ Field(download'[1], "queryParams") = KeyValuesOf(queryParams)
        /\ Field(download'[1], "headers") = KeyValuesOf(headers) ]_vars

\* C16: the exported document has the requestBody field exactly when the
\* method is POST, PUT or PATCH, also for a blank bodyText, and the export
\* changes neither the builder state nor the result state.
C16_ExportBodyField ==
  [][ handleExport =>
        /\ HasField(download'[1], "requestBody") <=> apiMethod \in {"POST", "PUT", "PATCH"}
        /\ HasField(download'[1], "requestBody") =>
             Field(download'[1], "requestBody") = requestBody
        /\ UNCHANGED <<builder, result, inflight>> ]_vars

\* a blank body was exported under POST
C16_Witness ==
  /\ download # Null
  /\ apiMethod = "POST"
  /\ requestBody = " "
  /\ HasField(download[1], "requestBody")
  /\ isLoading

\* C17: in every reachable state isLoading is true exactly when a dispatch
\* awaits its transport outcome.
C17_PendingTracksTransport == isLoading <=> inflight # <<>>

\* C18: with a transport that eventually resolves or rejects, every Pending
\* state is followed by a state where isLoading is false and exactly one of
\* response and error is set.
C18_EventuallySettles ==
  [](isLoading => <>(~isLoading /\ (response = Null) # (error = Null)))

\* C19: the request of a dispatch is assembled from the builder state at
\* dispatch start and stays what it is while the dispatch is in flight,
\* whatever is edited or loaded meanwhile; neither the start nor the
\* completion of a dispatch changes the builder state.
C19_SnapshotAtStart ==
  [][ /\ Dispatches =>
           Sent = outboundRequest(apiUrl, apiMethod, queryParams, headers, requestBody)
      /\ (handleTestApi \/ Settle) => UNCHANGED builder
      /\ Len(inflight') >= Len(inflight) =>
           \A i \in 1 .. Len(inflight) : inflight'[i].req = inflight[i].req ]_vars

\* a dispatch is in flight and the builder state has moved on since its start:
\* the request sent is no longer the one the builder state would assemble
C19_Witness ==
  \E i \in 1 .. Len(inflight) :
    /\ inflight[i].req # outboundRequest(apiUrl, apiMethod, queryParams, headers, requestBody)
    /\ inflight[i].req.url = DefaultUrl
    /\ apiUrl = ExampleUrl

====
